---- MODULE Spec2Model ----
(***************************************************************************)
(* State-machine model of the batched uncertainty pipeline:                *)
(*   src/main_pipeline.py   batchify, main                                 *)
(*   src/models/generator.py  load_model_and_tokenizer, run_generation     *)
(*                                                                         *)
(* One process executes main(args) statement by statement (pc is the       *)
(* position in main).  The destination file outlives the process: a fresh  *)
(* process (Restart) starts main again on the same destination.            *)
(***************************************************************************)
EXTENDS Integers, Sequences, FiniteSets, TLC

\* ------------------------------------------------------------------ bounds
MaxN == 3
MaxB == 2
MaxRuns == 2
MaxCalls == 3

\* ------------------------------------------------------- python values
\* Python values that reach a row are kept with their type, so that the
\* number 0, the string 'NA' and None stay three different values.
PyNone == <<"None">>
PyInt(n) == <<"int", n>>
PyStr(s) == <<"str", s>>

Min(a, b) == IF a <= b THEN a ELSE b

\* a unbound python name holding a single object: <<>>, bound: <<object>>
Unbound == <<>>
Bound(v) == <<v>>

\* ---------------------------------------------------------- configuration
DatasetNames == {"sciq", "imagenet"}
KnownDatasets == {"sampleqa", "sciq", "coqa", "triviaqa"}
SimilarityMethods == {"none", "sbert", "attention"}
UncertaintyMethods == {"lastde", "bogus"}
\* the method tags compute_uncertainty_scores dispatches on; any other tag
\* is an error (UnsupportedMethod)
KnownUncertaintyMethods == {"lastde"}
\* model identifiers a process may ask generator.py for
ModelNames == {"m", "m2", "m3"}

\* what a loader returns: an ordered corpus of n samples, each with its own
\* question
Corpus(n) == [k \in 1..n |-> [question |-> k]]

ArgsSpace ==
    [dataset : DatasetNames,
     batch_size : 1..MaxB,
     similarity_method : SimilarityMethods,
     uncertainty_method : UncertaintyMethods,
     model : {"m"}]

\* ------------------------------------------------------- pure functions
\* range(0, stop, step) for step >= 1, as the sequence of its values
Range(stop, step) ==
    LET cnt == Cardinality({s \in 0..(stop - 1) : s % step = 0})
    IN  [k \in 1..cnt |-> (k - 1) * step]

\* the python slice data[a:b] for 0 <= a <= b (clipped at the end of data)
Slice(data, a, b) == SubSeq(data, a + 1, Min(b, Len(data)))

\* mutant of batchify: range stops before a final shorter window
batchify_drop_tail(data, batch_size) ==
    LET starts == Range(Len(data) - batch_size + 1, batch_size)
    IN  [k \in DOMAIN starts |-> Slice(data, starts[k], starts[k] + batch_size)]

\* batchify(data, batch_size): everything the generator yields, in order
batchify(data, batch_size) ==
    LET starts == Range(Len(data), batch_size)
    IN  [k \in DOMAIN starts |-> Slice(data, starts[k], starts[k] + batch_size)]

\* greedy decoding (do_sample=False): the text generated for a sample is a
\* function of its prompt
Decode(s) == <<"answer", s.question>>

\* the number of tokens the model generates for a sample before its
\* end-of-sequence: a function of the prompt; it differs between samples
\* and is 0 for some
GeneratedTokens(s) == s.question % 3

Max(S) == CHOOSE x \in S : \A y \in S : y <= x

\* model.generate(...).scores for a padded batch: one entry per generation
\* step of the batch (generation goes on until the longest sample ends),
\* each entry a [batch, vocab] matrix, here the sequence of its rows, row k
\* being the vocabulary vector of sample k at that step
BatchScores(b) ==
    LET steps == Max({0} \cup {GeneratedTokens(b[k]) : k \in 1..Len(b)})
    IN  [t \in 1..steps |->
            [k \in 1..Len(b) |-> [sample |-> b[k].question, step |-> t]]]

\* run_generation's result: one item per sample of the batch, in batch
\* order.  inst names the item object: (batch index, position).
\* item["scores"] = outputs.scores, the same object for every item;
\* item["log_attentions"] is set only when return_attentions
RunGeneration(b, bidx, return_logits, return_attentions) ==
    [k \in 1..Len(b) |->
        [inst |-> <<bidx, k>>,
         generated_text |-> Decode(b[k]),
         scores |-> IF return_logits THEN Bound(BatchScores(b)) ELSE Unbound,
         log_attentions |-> return_attentions]]

\* mutant of CacheMiss: the cache is not consulted
CacheMissAlways(name, cache) == TRUE

\* if model_name not in _model_cache
CacheMiss(name, cache) == name \notin DOMAIN cache

\* the object the n-th from_pretrained of an identifier produces
Loaded(kind, name, n) == <<kind, name, n>>

\* _model_cache[model_name] = model
StoreInCache(cache, name, obj) == (name :> obj) @@ cache

\* mutant of Zip: the last pair is lost
ZipDropLast(b, outs) ==
    [k \in 1..(Min(Len(b), Len(outs)) - 1) |-> <<b[k], outs[k]>>]

\* mutant of ReturnAttentions: attentions are always requested
ReturnAttentionsAlways(method) == TRUE

\* mutant of Zip: the outputs are paired with the samples back to front
ZipReversed(b, outs) ==
    [k \in 1..Min(Len(b), Len(outs)) |-> <<b[k], outs[Len(outs) + 1 - k]>>]

\* zip(batch, outputs)
Zip(b, outs) == [k \in 1..Min(Len(b), Len(outs)) |-> <<b[k], outs[k]>>]

\* return_attentions=(args.similarity_method == 'attention')
ReturnAttentions(method) == method = "attention"

\* mutant of SimilarityRequested: the scorer is called whatever the method
SimilarityRequestedAlways(method) == TRUE

\* if args.similarity_method == 'attention'
SimilarityRequested(method) == method = "attention"

\* what compute_similarity may return: a number (0 among them) or None
SimilarityReturns == {PyInt(0), PyNone}

\* similarity_score if similarity_score is not None else 'NA'
RowSimilarity(s) == IF s # PyNone THEN s ELSE PyStr("NA")

\* the row dict of one sample
MakeRow(bidx, batch_size, k, smp, out, unc, corr, sim) ==
    [id |-> bidx * batch_size + k,
     question |-> smp.question,
     generated_answer |-> out.generated_text,
     uncertainty |-> unc,
     correct |-> corr,
     similarity_score |-> RowSimilarity(sim)]

FieldNames ==
    <<"id", "question", "generated_answer", "uncertainty", "correct",
      "similarity_score">>

\* the records csv.DictWriter writes
HeaderRecord == <<"header", FieldNames>>
RowRecord(r) == <<"row", r>>

\* mutant of NeedsHeader: the flag is not consulted
NeedsHeaderAlways(written) == TRUE

\* if not header_written
NeedsHeader(written) == ~written

\* mutant of FlushAppend: the destination is opened with mode='w'
FlushTruncate(content, buffer) == buffer

\* open(save_path, mode='a') ... close: the buffer goes after the content
FlushAppend(content, buffer) == content \o buffer

\* ------------------------------------------------------------------ state
VARIABLES
    run,              \* number of the process running main (1, 2, ...)
    pc,               \* position in main
    args,             \* the parsed command line
    corpus,           \* what the dataset loader yields for args.dataset
    dataset,          \* main: dataset
    results,          \* main: results
    header_written,   \* main: header_written
    batches,          \* what batchify(list(dataset), batch_size) yields
    it,               \* batches already taken from the generator
    batch_idx,        \* main: batch_idx
    batch,            \* main: batch        (<<>> when unbound)
    outputs,          \* main: outputs      (<<>> when unbound)
    jt,               \* pairs already taken from zip(batch, outputs)
    i,                \* main: i
    sample,           \* main: sample       (Unbound / Bound)
    output,           \* main: output       (Unbound / Bound)
    uncertainty,      \* main: uncertainty['score']
    correctness,      \* main: correctness
    similarity_score, \* main: similarity_score
    row,              \* main: row          (Unbound / Bound)
    f,                \* the open file object's buffer (Unbound when closed)
    file,             \* the destination results_<dataset>.csv
    file0,            \* the destination as this process found it
    exc,              \* the exception that ended main, if any
    model_cache,      \* generator._model_cache
    tokenizer_cache,  \* generator._tokenizer_cache
    loads,            \* per identifier, how often its model was loaded
    ret,              \* what load_model_and_tokenizer returned last
    gen_calls,        \* calls of run_generation in this process
    sim_calls         \* calls of compute_similarity in this process

env == <<run, args, corpus, file0>>
outer == <<dataset, batches, it, batch_idx, batch>>
inner == <<jt, i, sample, output>>
scored == <<uncertainty, correctness, similarity_score>>
sink == <<results, header_written, row, f, file>>
caches == <<model_cache, tokenizer_cache, loads, ret, gen_calls>>
vars == <<pc, exc, env, outer, outputs, inner, scored, sink, caches,
          sim_calls>>

NoException == [type |-> "none", step |-> "none"]

\* the state of a process that is about to call main(args): nothing is
\* bound yet and the module-level caches of generator.py are empty
FreshProcess ==
    /\ pc = "load"
    /\ dataset = <<>>
    /\ results = <<>>
    /\ header_written = FALSE
    /\ batches = <<>>
    /\ it = 0
    /\ batch_idx = 0
    /\ batch = <<>>
    /\ outputs = <<>>
    /\ jt = 0
    /\ i = 0
    /\ sample = Unbound
    /\ output = Unbound
    /\ uncertainty = PyNone
    /\ correctness = PyNone
    /\ similarity_score = PyNone
    /\ row = Unbound
    /\ f = Unbound
    /\ exc = NoException
    /\ model_cache = <<>>
    /\ tokenizer_cache = <<>>
    /\ loads = [name \in ModelNames |-> 0]
    /\ ret = PyNone
    /\ gen_calls = 0
    /\ sim_calls = 0

Init ==
    /\ run = 1
    /\ args \in ArgsSpace
    /\ corpus \in {Corpus(n) : n \in 0..MaxN}
    /\ file = <<>>
    /\ file0 = <<>>
    /\ FreshProcess

Terminal == {"done", "aborted", "crashed"}

\* an exception nobody catches leaves main: the process ends with it
Raise(type, step) ==
    /\ pc' = "aborted"
    /\ exc' = [type |-> type, step |-> step]

\* ---------------------------------------------------------------- actions
\* main, [Step 1]: the dataset named by args.dataset is loaded, or the
\* name is rejected; then results, save_path, header_written are set
Load ==
    /\ pc = "load"
    /\ \/ /\ args.dataset \in KnownDatasets
          /\ dataset' = corpus
          /\ results' = <<>>
          /\ header_written' = FALSE
          /\ pc' = "loop"
          /\ UNCHANGED exc
       \/ /\ args.dataset \notin KnownDatasets
          /\ Raise("ValueError", "load")
          /\ UNCHANGED <<dataset, results, header_written>>
    /\ UNCHANGED <<env, batches, it, batch_idx, batch, outputs, inner,
                   scored, row, f, file, caches, sim_calls>>

\* main, [Step 2]: enumerate(batchify(list(dataset), args.batch_size))
StartLoop ==
    /\ pc = "loop"
    /\ batches' = batchify(dataset, args.batch_size)
    /\ it' = 0
    /\ pc' = "for_batch"
    /\ UNCHANGED <<exc, env, dataset, batch_idx, batch, outputs, inner,
                   scored, sink, caches, sim_calls>>

\* for batch_idx, batch in ...: the next batch, or the end of the loop
NextBatch ==
    /\ pc = "for_batch"
    /\ \/ /\ it < Len(batches)
          /\ batch_idx' = it
          /\ batch' = batches[it + 1]
          /\ it' = it + 1
          /\ pc' = "generate"
       \/ /\ it >= Len(batches)
          /\ pc' = "finish"
          /\ UNCHANGED <<batch_idx, batch, it>>
    /\ UNCHANGED <<exc, env, dataset, batches, outputs, inner, scored, sink,
                   caches, sim_calls>>

\* load_model_and_tokenizer(name) returns: on a miss the tokenizer and the
\* model are loaded and both caches are set, then the cached pair is
\* returned
LoadReturns(name) ==
    /\ IF CacheMiss(name, model_cache)
       THEN /\ model_cache' = StoreInCache(model_cache, name,
                                  Loaded("model", name, loads[name] + 1))
            /\ tokenizer_cache' = StoreInCache(tokenizer_cache, name,
                                  Loaded("tokenizer", name, loads[name] + 1))
            /\ loads' = [loads EXCEPT ![name] = @ + 1]
       ELSE UNCHANGED <<model_cache, tokenizer_cache, loads>>
    /\ ret' = <<model_cache'[name], tokenizer_cache'[name]>>

\* load_model_and_tokenizer(name) raises: a from_pretrained failed, which
\* happens before either cache is assigned
LoadRaises(name) ==
    /\ CacheMiss(name, model_cache)
    /\ UNCHANGED <<model_cache, tokenizer_cache, loads, ret>>

\* mutant of GenerationFailurePc: the failing batch is skipped
GenerationFailureSkipsBatch == "clear"

\* where main is after run_generation raised: nothing catches the
\* exception, main ends with it
GenerationFailurePc == "aborted"

\* outputs = run_generation(batch, ...): the model is loaded on first use
\* (load_model_and_tokenizer), then the whole batch is generated; either
\* step may raise
Generate ==
    /\ pc = "generate"
    /\ gen_calls' = gen_calls + 1
    /\ \/ /\ LoadRaises(args.model)
          /\ pc' = GenerationFailurePc
          /\ exc' = [type |-> "OSError", step |-> "load_model_and_tokenizer"]
          /\ UNCHANGED <<outputs, jt>>
       \/ /\ LoadReturns(args.model)
          /\ pc' = GenerationFailurePc
          /\ exc' = [type |-> "RuntimeError", step |-> "run_generation"]
          /\ UNCHANGED <<outputs, jt>>
       \/ /\ LoadReturns(args.model)
          /\ outputs' = RunGeneration(batch, batch_idx, TRUE,
                                      ReturnAttentions(args.similarity_method))
          /\ jt' = 0
          /\ pc' = "for_sample"
          /\ UNCHANGED exc
    /\ UNCHANGED <<env, outer, i, sample, output, scored, sink, sim_calls>>

\* for i, (sample, output) in enumerate(zip(batch, outputs))
NextSample ==
    /\ pc = "for_sample"
    /\ LET pairs == Zip(batch, outputs)
       IN  \/ /\ jt < Len(pairs)
              /\ i' = jt
              /\ sample' = Bound(pairs[jt + 1][1])
              /\ output' = Bound(pairs[jt + 1][2])
              /\ jt' = jt + 1
              /\ pc' = "likelihoods"
           \/ /\ jt >= Len(pairs)
              /\ pc' = "clear"
              /\ UNCHANGED inner
    /\ UNCHANGED <<exc, env, outer, outputs, scored, sink, caches, sim_calls>>

\* likelihoods = compute_likelihoods(output)
ComputeLikelihoods ==
    /\ pc = "likelihoods"
    /\ \/ /\ pc' = "uncertainty"
          /\ UNCHANGED exc
       \/ Raise("Exception", "compute_likelihoods")
    /\ UNCHANGED <<env, outer, outputs, inner, scored, sink, caches, sim_calls>>

\* uncertainty = compute_uncertainty_scores(likelihoods, method=...)
ComputeUncertainty ==
    /\ pc = "uncertainty"
    /\ \/ /\ args.uncertainty_method \in KnownUncertaintyMethods
          /\ uncertainty' = <<"float", "u">>
          /\ pc' = "correctness"
          /\ UNCHANGED exc
       \/ /\ Raise("Exception", "compute_uncertainty_scores")
          /\ UNCHANGED uncertainty
    /\ UNCHANGED <<env, outer, outputs, inner, correctness, similarity_score,
                   sink, caches, sim_calls>>

\* correctness = evaluate_response(sample, output)
EvaluateResponse ==
    /\ pc = "correctness"
    /\ \/ /\ correctness' = <<"bool", TRUE>>
          /\ pc' = "similarity_if"
          /\ UNCHANGED exc
       \/ /\ Raise("Exception", "evaluate_response")
          /\ UNCHANGED correctness
    /\ UNCHANGED <<env, outer, outputs, inner, uncertainty, similarity_score,
                   sink, caches, sim_calls>>

\* similarity_score = None; if args.similarity_method == 'attention':
SimilarityIf ==
    /\ pc = "similarity_if"
    /\ similarity_score' = PyNone
    /\ pc' = IF SimilarityRequested(args.similarity_method)
             THEN "compute_similarity" ELSE "row"
    /\ UNCHANGED <<exc, env, outer, outputs, inner, uncertainty, correctness,
                   sink, caches, sim_calls>>

\* similarity_score = compute_similarity(model_outputs=output, ...)
ComputeSimilarity ==
    /\ pc = "compute_similarity"
    /\ sim_calls' = sim_calls + 1
    /\ \/ /\ \E v \in SimilarityReturns : similarity_score' = v
          /\ pc' = "row"
          /\ UNCHANGED exc
       \/ /\ Raise("Exception", "compute_similarity")
          /\ UNCHANGED similarity_score
    /\ UNCHANGED <<env, outer, outputs, inner, uncertainty, correctness,
                   sink, caches>>

\* row = {...}; results.append(row)
StoreRow ==
    /\ pc = "row"
    /\ LET r == MakeRow(batch_idx, args.batch_size, i, sample[1], output[1],
                        uncertainty, correctness, similarity_score)
       IN  /\ row' = Bound(r)
           /\ results' = Append(results, r)
    /\ pc' = "open"
    /\ UNCHANGED <<exc, env, outer, outputs, inner, scored, header_written,
                   f, file, caches, sim_calls>>

\* with open(save_path, mode='a', newline='') as f: writer = DictWriter(f)
OpenFile ==
    /\ pc = "open"
    /\ \/ /\ f' = Bound(<<>>)
          /\ pc' = "write"
          /\ UNCHANGED exc
       \/ /\ Raise("OSError", "open")
          /\ UNCHANGED f
    /\ UNCHANGED <<env, outer, outputs, inner, scored, results,
                   header_written, row, file, caches, sim_calls>>

\* if not header_written: writeheader(); header_written = True
\* writer.writerow(row)        (both go to the file object's buffer)
WriteRow ==
    /\ pc = "write"
    /\ f' = Bound(f[1]
                  \o (IF NeedsHeader(header_written)
                      THEN <<HeaderRecord>> ELSE <<>>)
                  \o <<RowRecord(row[1])>>)
    /\ header_written' = TRUE
    /\ pc' = "close"
    /\ UNCHANGED <<exc, env, outer, outputs, inner, scored, results, row,
                   file, caches, sim_calls>>

\* leaving the with block closes f: its buffer reaches the destination
CloseFile ==
    /\ pc = "close"
    /\ file' = FlushAppend(file, f[1])
    /\ f' = Unbound
    /\ pc' = "for_sample"
    /\ UNCHANGED <<exc, env, outer, outputs, inner, scored, results,
                   header_written, row, caches, sim_calls>>

\* del outputs, batch; torch.cuda.empty_cache()
ClearMemory ==
    /\ pc = "clear"
    /\ outputs' = <<>>
    /\ batch' = <<>>
    /\ pc' = "for_batch"
    /\ UNCHANGED <<exc, env, dataset, batches, it, batch_idx, inner, scored,
                   sink, caches, sim_calls>>

\* print("All QA pairs processed ..."); main returns
Finish ==
    /\ pc = "finish"
    /\ pc' = "done"
    /\ UNCHANGED <<exc, env, outer, outputs, inner, scored, sink, caches, sim_calls>>

\* the process is killed: what a file object still buffers is lost
Crash ==
    /\ pc \notin Terminal
    /\ pc' = "crashed"
    /\ f' = Unbound
    /\ UNCHANGED <<exc, env, outer, outputs, inner, scored, results,
                   header_written, row, file, caches, sim_calls>>

\* a fresh process runs main with the same arguments on the destination
\* the earlier ones left
Restart ==
    /\ pc \in Terminal
    /\ run < MaxRuns
    /\ run' = run + 1
    /\ file0' = file
    /\ pc' = "load"
    /\ dataset' = <<>>
    /\ results' = <<>>
    /\ header_written' = FALSE
    /\ batches' = <<>>
    /\ it' = 0
    /\ batch_idx' = 0
    /\ batch' = <<>>
    /\ outputs' = <<>>
    /\ jt' = 0
    /\ i' = 0
    /\ sample' = Unbound
    /\ output' = Unbound
    /\ uncertainty' = PyNone
    /\ correctness' = PyNone
    /\ similarity_score' = PyNone
    /\ row' = Unbound
    /\ f' = Unbound
    /\ exc' = NoException
    /\ model_cache' = <<>>
    /\ tokenizer_cache' = <<>>
    /\ loads' = [name \in ModelNames |-> 0]
    /\ ret' = PyNone
    /\ gen_calls' = 0
    /\ sim_calls' = 0
    /\ UNCHANGED <<args, corpus, file>>

Next ==
    \/ Load
    \/ StartLoop
    \/ NextBatch
    \/ Generate
    \/ NextSample
    \/ ComputeLikelihoods
    \/ ComputeUncertainty
    \/ EvaluateResponse
    \/ SimilarityIf
    \/ ComputeSimilarity
    \/ StoreRow
    \/ OpenFile
    \/ WriteRow
    \/ CloseFile
    \/ ClearMemory
    \/ Finish
    \/ Crash
    \/ Restart

Spec == Init /\ [][Next]_vars

\* ------------------------------------------------ a run in which nothing fails
\* No collaborator raises and the process is not killed.  main is one
\* thread that executes its next statement whenever it has one, which is
\* the fairness assumed.
NextOk ==
    \/ Load /\ pc' # "aborted"
    \/ StartLoop
    \/ NextBatch
    \/ Generate /\ pc' # "aborted"
    \/ NextSample
    \/ ComputeLikelihoods /\ pc' # "aborted"
    \/ ComputeUncertainty /\ pc' # "aborted"
    \/ EvaluateResponse /\ pc' # "aborted"
    \/ SimilarityIf
    \/ ComputeSimilarity /\ pc' # "aborted"
    \/ StoreRow
    \/ OpenFile /\ pc' # "aborted"
    \/ WriteRow
    \/ CloseFile
    \/ ClearMemory
    \/ Finish

SpecOk == Init /\ [][NextOk]_vars /\ WF_vars(NextOk)

\* ------------------------------------- main with any generation collaborator
\* main only relies on run_generation returning a list: here the call
\* returns the outputs of any number of leading samples of the batch, or one
\* output more than the batch has samples.
GenerateStub ==
    /\ pc = "generate"
    /\ gen_calls' = gen_calls + 1
    /\ \E n \in 0..(Len(batch) + 1) :
          outputs' = SubSeq(RunGeneration(Append(batch, [question |-> 0]),
                                batch_idx, TRUE,
                                ReturnAttentions(args.similarity_method)),
                            1, n)
    /\ jt' = 0
    /\ pc' = "for_sample"
    /\ UNCHANGED <<exc, env, outer, i, sample, output, scored, sink,
                   model_cache, tokenizer_cache, loads, ret, sim_calls>>

NextShort ==
    \/ Load
    \/ StartLoop
    \/ NextBatch
    \/ GenerateStub
    \/ NextSample
    \/ ComputeLikelihoods
    \/ ComputeUncertainty
    \/ EvaluateResponse
    \/ SimilarityIf
    \/ ComputeSimilarity
    \/ StoreRow
    \/ OpenFile
    \/ WriteRow
    \/ CloseFile
    \/ ClearMemory
    \/ Finish

SpecShort == Init /\ [][NextShort]_vars

\* ------------------------------------------- generator.py used on its own
\* A process that calls load_model_and_tokenizer and run_generation with
\* any identifiers, in any order, and goes on after a call that raised.
InitCache ==
    /\ run = 1
    /\ args = [dataset |-> "sciq", batch_size |-> 1,
               similarity_method |-> "none", uncertainty_method |-> "lastde",
               model |-> "m"]
    /\ corpus = <<>>
    /\ file = <<>>
    /\ file0 = <<>>
    /\ FreshProcess

\* load_model_and_tokenizer(name)
CallLoad(name) ==
    /\ \/ /\ LoadReturns(name)
          /\ exc' = NoException
       \/ /\ LoadRaises(name)
          /\ exc' = [type |-> "OSError", step |-> "load_model_and_tokenizer"]
    /\ UNCHANGED <<pc, env, outer, outputs, inner, scored, sink, gen_calls,
                   sim_calls>>

\* run_generation(batch, name): the load, then the generation
CallRunGeneration(name) ==
    /\ gen_calls < MaxCalls
    /\ gen_calls' = gen_calls + 1
    /\ \/ /\ LoadRaises(name)
          /\ exc' = [type |-> "OSError", step |-> "load_model_and_tokenizer"]
       \/ /\ LoadReturns(name)
          /\ exc' = [type |-> "RuntimeError", step |-> "run_generation"]
       \/ /\ LoadReturns(name)
          /\ exc' = NoException
    /\ UNCHANGED <<pc, env, outer, outputs, inner, scored, sink, sim_calls>>

NextCache ==
    \E name \in ModelNames :
        \/ CallLoad(name)
        \/ CallRunGeneration(name)

SpecCache == InitCache /\ [][NextCache]_vars

\* ------------------------------------------------- observations of a state
RECURSIVE Concat(_)
Concat(seqs) == IF seqs = <<>> THEN <<>> ELSE Head(seqs) \o Concat(Tail(seqs))

IsPrefix(a, b) == Len(a) <= Len(b) /\ SubSeq(b, 1, Len(a)) = a
Iota(n) == [k \in 1..n |-> k - 1]
CeilDiv(n, d) == (n + d - 1) \div d

IsHeader(e) == e[1] = "header"
IsRow(e) == e[1] = "row"
Rows(content) ==
    LET rs == SelectSeq(content, IsRow) IN [k \in DOMAIN rs |-> rs[k][2]]
Ids(content) == LET rs == Rows(content) IN [k \in DOMAIN rs |-> rs[k].id]
HeaderCount(content) == Len(SelectSeq(content, IsHeader))

\* what this process has appended to the destination so far
RunPart == SubSeq(file, Len(file0) + 1, Len(file))

\* the generation outputs main still references: the items of the list
\* bound to outputs, and the item bound to the loop variable output (a
\* for-loop target stays bound after its loop, and del names only outputs
\* and batch)
Retained ==
    {outputs[k].inst : k \in DOMAIN outputs}
        \cup {output[k].inst : k \in DOMAIN output}

ScoringSteps ==
    {"compute_likelihoods", "compute_uncertainty_scores",
     "evaluate_response", "compute_similarity"}

\* positions of main inside the batch loop
InLoop ==
    {"for_batch", "generate", "for_sample", "likelihoods", "uncertainty",
     "correctness", "similarity_if", "compute_similarity", "row", "open",
     "write", "close", "clear", "finish", "done"}

\* ------------------------------------------------------------------ claims

\* C1: the ids of the rows a run writes are always 0, 1, 2, ... in order,
\* and once the run has ended, by returning or because a per-sample scoring
\* step raised, they are exactly 0..N-1.
C1_IdsExactlyAllSamples ==
    /\ Ids(RunPart) = Iota(Len(Ids(RunPart)))
    /\ (pc = "done" \/ (pc = "aborted" /\ exc.step \in ScoringSteps))
           => Ids(RunPart) = Iota(Len(dataset))

\* C2: a per-sample scoring step that raises does not end the run: main
\* goes on, and the sample it raised for has its row in the destination.
C2_ScoringFailureRecovered ==
    exc.step \in ScoringSteps
        => /\ pc # "aborted"
           /\ \E k \in DOMAIN Ids(RunPart) :
                  Ids(RunPart)[k] = batch_idx * args.batch_size + i

\* C3: the destination only ever grows, by one closed append per row (an
\* optional header and exactly one row, the next id), so whenever the run
\* stops it holds this run's rows 0..k-1 in order, none rewritten.
C3_ClosedPrefix ==
    [][/\ IsPrefix(file, file')
       /\ file' # file
            => /\ pc = "close"
               /\ Ids(SubSeq(file', Len(file) + 1, Len(file')))
                      = <<Len(Ids(RunPart))>>
       /\ Ids(RunPart') = Iota(Len(Ids(RunPart')))]_vars

C3_Witness ==
    /\ pc = "crashed"
    /\ Len(dataset) = 3
    /\ Ids(RunPart) = <<0, 1>>

\* C4: within one run the header_written flag never goes back to false, and
\* what the run has appended holds exactly one header, in front of its
\* first row, as soon as it holds a row (and no header before that).
C4_HeaderOnce ==
    [][/\ (run' = run /\ header_written) => header_written'
       /\ HeaderCount(RunPart') = IF Rows(RunPart') # <<>> THEN 1 ELSE 0
       /\ RunPart' # <<>> => IsHeader(RunPart'[1])]_vars

C4_Witness ==
    /\ pc = "done"
    /\ args.batch_size = 1
    /\ Ids(RunPart) = <<0, 1, 2>>
    /\ HeaderCount(RunPart) = 1
    /\ header_written

\* C5: on a destination that already has content, the prior content stays
\* an unchanged prefix, the run's own part starts with its own header, and a
\* completed run has added one header and the ids 0..N-1 after it: two
\* complete runs leave two headers and the ids 0..N-1 twice.
C5_AppendAfterPrior ==
    file0 # <<>>
        => /\ IsPrefix(file0, file)
           /\ RunPart # <<>> => IsHeader(RunPart[1])
           /\ pc = "done"
                => /\ HeaderCount(file) = HeaderCount(file0) + 1
                   /\ Ids(file) = Ids(file0) \o Iota(Len(dataset))

C5_Witness ==
    /\ run = 2
    /\ pc = "done"
    /\ HeaderCount(file) = 2
    /\ Ids(file) = <<0, 1, 0, 1>>

\* C6: with no similarity method requested compute_similarity is never
\* called and every persisted row carries 'NA', not the number 0; and a row
\* carries 'NA' exactly when the scorer produced no value for it.
C6_SimilarityAbsentNotZero ==
    /\ args.similarity_method = "none"
         => /\ pc # "compute_similarity"
            /\ \A k \in DOMAIN Rows(file) :
                  /\ Rows(file)[k].similarity_score = PyStr("NA")
                  /\ Rows(file)[k].similarity_score # PyInt(0)
    /\ pc \in {"open", "write", "close"}
         => (row[1].similarity_score = PyStr("NA")
                <=> similarity_score = PyNone)

C6_Witness ==
    /\ args.similarity_method = "none"
    /\ pc = "done"
    /\ Len(Rows(RunPart)) = 2

\* C7: the batches main iterates over are contiguous slices of the dataset
\* in load order: concatenated they give the dataset, there are ceil(N/B)
\* of them, all but the last hold B samples, the last holds 1..B, and an
\* empty dataset gives none.
C7_BatchifySlices ==
    pc \in InLoop
        => LET n == Len(dataset)
               B == args.batch_size
           IN  /\ Concat(batches) = dataset
               /\ Len(batches) = CeilDiv(n, B)
               /\ \A k \in 1..(Len(batches) - 1) : Len(batches[k]) = B
               /\ batches # <<>> => Len(batches[Len(batches)]) \in 1..B
               /\ n = 0 => batches = <<>>

C7_Witness ==
    /\ pc = "done"
    /\ Len(dataset) = 3
    /\ args.batch_size = 2
    /\ Len(batches) = 2
    /\ Len(batches[1]) = 2
    /\ Len(batches[2]) = 1

\* C8: the k-th row a run persists has id k, the question of the k-th
\* sample of the dataset and the text generated for that sample, so the
\* rows stand in the destination in dataset order.
C8_RowsInDatasetOrder ==
    \A k \in DOMAIN Rows(RunPart) :
        /\ k <= Len(dataset)
        /\ Rows(RunPart)[k].id = k - 1
        /\ Rows(RunPart)[k].question = dataset[k].question
        /\ Rows(RunPart)[k].generated_answer = Decode(dataset[k])

C8_Witness ==
    /\ pc = "done"
    /\ args.batch_size = 2
    /\ Len(Rows(RunPart)) = 3

\* C9: when the generation call of a batch is issued, every row of the
\* batches before it is persisted and none of their generation outputs is
\* still referenced; at any time the referenced outputs are of one batch.
C9_BatchesSequential ==
    /\ pc = "generate"
         => /\ Ids(RunPart) = Iota(batch_idx * args.batch_size)
            /\ Retained = {}
    /\ Cardinality({inst[1] : inst \in Retained}) <= 1

\* C10: main never references more than batch_size generation outputs, and
\* at the generation call of a batch it references none of an earlier one.
C10_MemoryBound ==
    /\ Cardinality(Retained) <= args.batch_size
    /\ pc = "generate" => \A inst \in Retained : inst[1] >= batch_idx

\* C11: with an unknown dataset name or an unknown scoring-method tag no
\* generation call is ever issued and the destination is left as it was.
C11_ConfigErrorBeforeBatches ==
    (\/ args.dataset \notin KnownDatasets
     \/ args.uncertainty_method \notin KnownUncertaintyMethods)
        => /\ gen_calls = 0
           /\ pc # "generate"
           /\ file = file0

\* C12: once run_generation has raised for batch k the run is over with
\* that error: no output list was bound, no further batch was taken or
\* generated, and the run has persisted exactly the rows of batches 0..k-1.
C12_GenerationFailureFatal ==
    exc.step \in {"run_generation", "load_model_and_tokenizer"}
        => /\ pc = "aborted"
           /\ outputs = <<>>
           /\ it = batch_idx + 1
           /\ gen_calls = batch_idx + 1
           /\ Ids(RunPart) = Iota(Len(Concat(SubSeq(batches, 1, batch_idx))))
           /\ Ids(RunPart) = Iota(batch_idx * args.batch_size)

C12_Witness ==
    /\ pc = "aborted"
    /\ exc.step = "run_generation"
    /\ batch_idx = 1
    /\ Ids(RunPart) = <<0, 1>>
    /\ Len(dataset) = 3

\* C13: in one process every identifier is loaded at most once and is
\* cached exactly when it was loaded, both caches have the same keys, a
\* cached pair is never dropped or replaced, a call whose load raised
\* leaves both caches as they were, and every call that returns returns
\* the pair of the identifier's first load.
C13_CacheOnce ==
    [][/\ \A name \in ModelNames :
             /\ loads'[name] <= 1
             /\ name \in DOMAIN model_cache' <=> loads'[name] = 1
       /\ DOMAIN model_cache' = DOMAIN tokenizer_cache'
       /\ \A name \in DOMAIN model_cache :
             /\ name \in DOMAIN model_cache'
             /\ model_cache'[name] = model_cache[name]
             /\ tokenizer_cache'[name] = tokenizer_cache[name]
       /\ exc'.step = "load_model_and_tokenizer"
             => UNCHANGED <<model_cache, tokenizer_cache>>
       /\ ret' # PyNone
             => \E name \in DOMAIN model_cache' :
                   /\ ret' = <<model_cache'[name], tokenizer_cache'[name]>>
                   /\ ret' = <<Loaded("model", name, 1),
                               Loaded("tokenizer", name, 1)>>]_vars

C13_Witness ==
    /\ DOMAIN model_cache = {"m", "m2"}
    /\ gen_calls = 3
    /\ ret = <<model_cache["m2"], tokenizer_cache["m2"]>>
    /\ exc.step = "load_model_and_tokenizer"

\* positions of main where the current sample is being scored
ScoringPcs ==
    {"likelihoods", "uncertainty", "correctness", "similarity_if",
     "compute_similarity"}

\* positions of main where the current sample's row is built and persisted
PersistPcs == {"row", "open", "write", "close"}

\* C14: with a similarity method other than 'none' (the default 'sbert'
\* among them) compute_similarity has been called for every sample whose
\* row is being built or has been built.
C14_SimilarityComputedUnlessNone ==
    (args.similarity_method # "none" /\ pc \in PersistPcs)
        => sim_calls = Len(results) + (IF pc = "row" THEN 1 ELSE 0)

\* C15: the scores of the output of sample k of the batch have one entry
\* per token generated for sample k, and each entry is the one vocabulary
\* vector of sample k at that step.
C15_ScoresPerSample ==
    \A k \in DOMAIN outputs :
        LET sc == outputs[k].scores[1]
        IN  /\ Len(sc) = GeneratedTokens(batch[k])
            /\ \A t \in DOMAIN sc :
                  sc[t] = <<[sample |-> batch[k].question, step |-> t]>>

\* C16: with a known dataset and method tag and nothing failing, the run
\* reaches done, and at done it has issued ceil(N/B) generation calls and
\* the destination holds the ids 0..N-1; for N = 0 no call and no write.
C16_TerminatesWithAllRows ==
    (/\ args.dataset \in KnownDatasets
     /\ args.uncertainty_method \in KnownUncertaintyMethods)
        => /\ <>(pc = "done")
           /\ [](pc = "done"
                   => /\ gen_calls = CeilDiv(Len(corpus), args.batch_size)
                      /\ Ids(file) = Iota(Len(corpus))
                      /\ Len(corpus) = 0 => (gen_calls = 0 /\ file = <<>>))

C16_Witness ==
    /\ pc = "done"
    /\ Len(corpus) = 3
    /\ args.batch_size = 2
    /\ gen_calls = 2
    /\ Ids(file) = <<0, 1, 2>>

\* C17 as stated: while a sample of a batch is being scored, no row of
\* that batch has been persisted yet (all scoring precedes persisting), and
\* the batch's outputs are dropped only after its last row is persisted.
C17_ScoreAllThenPersist ==
    /\ pc \in ScoringPcs
         => Len(Ids(RunPart)) <= batch_idx * args.batch_size
    /\ pc = "clear"
         => Ids(RunPart) = Iota(batch_idx * args.batch_size + Len(batch))

\* C17 amended: a batch is generated first and released last, and in
\* between its samples are taken one by one, each scored and then persisted
\* before the next is scored: while sample i is scored or persisted the run
\* has persisted exactly the rows before it, the outputs are still bound,
\* and they are dropped only after the last row of the batch is persisted.
C17_PhasesPerSample ==
    /\ pc \in ScoringPcs \cup PersistPcs
         => /\ Ids(RunPart) = Iota(batch_idx * args.batch_size + i)
            /\ outputs # <<>>
    /\ pc = "clear"
         => /\ Ids(RunPart) = Iota(batch_idx * args.batch_size + Len(batch))
            /\ outputs # <<>>
    /\ pc \in {"for_batch", "generate", "finish", "done"} => outputs = <<>>

C17_Witness ==
    /\ pc = "likelihoods"
    /\ batch_idx = 0
    /\ i = 1
    /\ Ids(RunPart) = <<0>>

\* C18: nothing main keeps grows with the number of rows emitted: results
\* never holds more than the rows of one batch.
C18_NothingGrowsAcrossBatches ==
    Len(results) <= args.batch_size

\* C19: every generation output carries log_attentions exactly when the
\* similarity method is 'attention' (return_attentions is set exactly then
\* and run_generation adds the entry only when it is set).
C19_AttentionsOnlyWhenRequested ==
    /\ \A k \in DOMAIN outputs :
          outputs[k].log_attentions <=> args.similarity_method = "attention"
    /\ \A k \in DOMAIN output :
          output[k].log_attentions <=> args.similarity_method = "attention"

C19_Witness ==
    /\ args.similarity_method = "attention"
    /\ pc = "likelihoods"
    /\ Len(outputs) = 2
    /\ output[1].log_attentions

\* the ids the run has persisted for batch b
BatchIds(b) ==
    LET InBatch(x) == x \div args.batch_size = b
    IN  SelectSeq(Ids(RunPart), InBatch)

\* C20: when the loop over a batch ends, the run has persisted one row per
\* (sample, output) pair, min(len(batch), len(outputs)) of them, for the
\* leading samples of the batch with ids batch_idx * B + 0, 1, ...; the
\* samples without an output have no row and no exception was raised.
C20_RowsPerPair ==
    pc = "clear"
        => LET m == Min(Len(batch), Len(outputs))
               base == batch_idx * args.batch_size
           IN  /\ BatchIds(batch_idx) = [k \in 1..m |-> base + k - 1]
               /\ \A k \in DOMAIN Rows(RunPart) :
                     Rows(RunPart)[k].id >= base
                        => Rows(RunPart)[k].question
                             = batch[Rows(RunPart)[k].id - base + 1].question
               /\ exc = NoException

C20_Witness ==
    /\ pc = "done"
    /\ Len(dataset) = 3
    /\ args.batch_size = 2
    /\ exc = NoException
    /\ Ids(file) = <<0, 2>>

====
